---- MODULE Spec2Model ----
(***************************************************************************)
(* A model of claimbot.js: the endpoint pool, the failover queries         *)
(* (fetchTable, fetchBalance), the collected-amount client                 *)
(* (fetchCollected), the two decision procedures (increaseLimit,           *)
(* claimAether), the submission pipeline (transact) and the scheduler      *)
(* (runTasks, runAccounts, the interval timer).                            *)
(*                                                                         *)
(* JavaScript runs one callback at a time: every action below is one       *)
(* callback, from the event that resumes a suspended pass (a reply, a      *)
(* timeout, a timer) to the next await that really suspends.               *)
(*                                                                         *)
(* Amounts are whole AETHER.  A JavaScript number is a record              *)
(* [k, v, f]: k = "num" is the real number v (f = 0) or a number strictly  *)
(* between v and v + 1 (f = 1); k = "nan" is NaN; k = "ninf" is -Infinity; *)
(* k = "arr" is the empty array [], k = "undef" is undefined, k = "negzero" *)
(* is -0 and k = "str" is a string whose leading number is v (an           *)
(* environment variable "150000", an asset "50000.0000 AETHER").           *)
(***************************************************************************)
EXTENDS Integers, Sequences, FiniteSets, TLC

(* ------------------------------ bounds --------------------------------- *)
\* Endpoints in the pool (the program ships six, line 20..27).
NumEndpoints == 2
\* Accounts found in the environment at start-up (line 343..366).
NumAccounts == 2
\* Times the interval timer of line 377 fires in SpecOverlap.
MaxTimerFires == 1
\* Hours the clock advances past a limit's extension in SpecDecay.
MaxHours == 12
\* Half-AETHER steps the target limit takes from each start in SpecCost.
MaxSteps == 30

(* ------------------------- program constants --------------------------- *)
MIN_LIMIT == 10000
MAX_LIMIT == 50000000
DefaultDelayMin == 4
DefaultDelayMax == 10
DefaultMaxLimit == 100000
DefaultMinClaim == 50000
DefaultMaxWaste == 1000
MaxErrorCount == 3
SecondsPerHour == 3600
DecayPercent == 99
DefaultLimit == 10000
LimitFloor == 10000

(* ------------------------- JavaScript values --------------------------- *)
NaN == [k |-> "nan", v |-> 0, f |-> 0]
NegInfinity == [k |-> "ninf", v |-> 0, f |-> 0]
EmptyArray == [k |-> "arr", v |-> 0, f |-> 0]
Undefined == [k |-> "undef", v |-> 0, f |-> 0]
NegZero == [k |-> "negzero", v |-> 0, f |-> 0]
Str(n) == [k |-> "str", v |-> n, f |-> 0]
Num(n) == [k |-> "num", v |-> n, f |-> 0]
Between(n) == [k |-> "num", v |-> n, f |-> 1]

IsNum(x) == x.k = "num"

\* ToNumber: [] converts to "" and then to 0; undefined converts to NaN; a
\* numeric string converts to its number; -0 compares as 0.
ToNumber(x) ==
    CASE x.k = "arr" -> Num(0)
      [] x.k = "negzero" -> Num(0)
      [] x.k = "str" -> Num(x.v)
      [] x.k = "undef" -> NaN
      [] OTHER -> x

\* a < b on numbers: false when either side is NaN.  Exact as long as at
\* most one side has a fractional part, which holds for every comparison
\* the program makes on whole-AETHER inputs.
JsLt(a, b) ==
    LET x == ToNumber(a)
        y == ToNumber(b)
    IN  CASE x.k = "nan" \/ y.k = "nan" -> FALSE
          [] x.k = "ninf" -> y.k # "ninf"
          [] y.k = "ninf" -> FALSE
          [] OTHER -> x.v < y.v \/ (x.v = y.v /\ x.f < y.f)

JsGt(a, b) == JsLt(b, a)

\* Math.min / Math.max: NaN when either argument is NaN.
MathMin(a, b) ==
    IF a.k = "nan" \/ b.k = "nan" THEN NaN
    ELSE IF JsLt(b, a) THEN b ELSE a

MathMax(a, b) ==
    IF a.k = "nan" \/ b.k = "nan" THEN NaN
    ELSE IF JsLt(a, b) THEN b ELSE a

\* a - b for an integer a and a finite b.
JsSub(a, b) ==
    IF a.k # "num" \/ b.k # "num" THEN NaN
    ELSE [k |-> "num", v |-> a.v - b.v - b.f, f |-> b.f]

\* parseFloat(s) || d: NaN and 0 are falsy, so both give the default.
OrDefault(x, d) == IF x.k = "num" /\ (x.v # 0 \/ x.f # 0) THEN x ELSE Num(d)

\* parseFloat: the leading number of a string; NaN for undefined.
parseFloat(x) == IF x.k = "str" THEN Num(x.v) ELSE IF x.k = "num" THEN x ELSE NaN

(* ------------------------ exact number helpers ------------------------- *)
Abs(n) == IF n < 0 THEN -n ELSE n

\* Base-100 digits of a natural number, least significant first.
RECURSIVE ToLimbs(_)
ToLimbs(n) == IF n = 0 THEN <<>> ELSE <<n % 100>> \o ToLimbs(n \div 100)

RECURSIVE FromLimbs(_)
FromLimbs(l) == IF l = <<>> THEN 0 ELSE Head(l) + 100 * FromLimbs(Tail(l))

RECURSIVE MulSmall(_, _, _)
MulSmall(l, m, carry) ==
    IF l = <<>> THEN ToLimbs(carry)
    ELSE LET x == Head(l) * m + carry
         IN  <<x % 100>> \o MulSmall(Tail(l), m, x \div 100)

RECURSIVE TimesPow(_, _, _)
TimesPow(l, m, h) == IF h = 0 THEN l ELSE TimesPow(MulSmall(l, m, 0), m, h - 1)

\* (limit / 1e4) * Math.pow(0.99, hours) = limit * 99^hours / 100^(2 + hours),
\* for hours >= 0: the base-100 digits of limit * 99^hours with the low
\* 2 + hours digits as the fraction.
Decayed(limit, hours) ==
    LET l == TimesPow(ToLimbs(limit), DecayPercent, hours)
        drop == 2 + hours
        low == IF Len(l) < drop THEN Len(l) ELSE drop
    IN  [k |-> "num",
         v |-> FromLimbs(SubSeq(l, drop + 1, Len(l))),
         f |-> IF \E i \in 1..low : l[i] # 0 THEN 1 ELSE 0]

\* Long division of 25 * 10^10 * b by d * 4999, digit by digit: q1 and r1
\* are the quotient digit and remainder of the division by d, acc and r2
\* those of the division of that quotient by 4999.
RECURSIVE CostDigits(_, _, _, _, _)
CostDigits(r1, r2, acc, d, n) ==
    IF n = 0 THEN <<acc, r1, r2>>
    ELSE LET x == r1 * 10
             y == r2 * 10 + (x \div d)
         IN  CostDigits(x % d, y % 4999, acc * 10 + (y \div 4999), d, n - 1)

\* <<floor, remainder # 0>> of MAX_LIMIT^2 * b / (d * (MAX_LIMIT - MIN_LIMIT))
\* for b >= 0, d > 0: MAX_LIMIT^2 / (MAX_LIMIT - MIN_LIMIT) = 25 * 10^10 / 4999.
CostQuotient(b, d) ==
    LET m == 25 * b
        q0 == m \div d
        r == CostDigits(m % d, q0 % 4999, q0 \div 4999, d, 10)
    IN  <<r[1], r[2] # 0 \/ r[3] # 0>>


(* --------------------------- the environment --------------------------- *)
\* WAX_ENDPOINTS: the fixed endpoint list, endpoints named 1..NumEndpoints.
WAX_ENDPOINTS == [i \in 1..NumEndpoints |-> i]

\* A shuffle that draws every position anew, repeats allowed.
ShufflesWithRepeats == [1..NumEndpoints -> 1..NumEndpoints]

\* _.shuffle(WAX_ENDPOINTS) can return any ordering of the list.
Shuffles ==
    {s \in [1..NumEndpoints -> 1..NumEndpoints] :
        \A i, j \in 1..NumEndpoints : s[i] = s[j] => i = j}

\* The accounts array built at start-up from ACCOUNT_NAME<id> and
\* PRIVATE_KEY<id>: account i has name i and key i.
Accounts(n) == [i \in 1..n |-> [account |-> i, privKey |-> i]]

\* process.env: each variable is unset (undefined) or a numeric string.
EnvDefault ==
    [DEV_MODE |-> Undefined, DELAY_MIN |-> Undefined, DELAY_MAX |-> Undefined,
     MAX_CLAIM_LIMIT |-> Undefined, MIN_CLAIM |-> Undefined, MAX_WASTE |-> Undefined]

Envs ==
    { EnvDefault,
      [EnvDefault EXCEPT !.DEV_MODE = Str(1)],
      [EnvDefault EXCEPT !.MIN_CLAIM = Str(0), !.MAX_WASTE = Str(0)],
      [EnvDefault EXCEPT !.DEV_MODE = Str(0), !.DELAY_MIN = Str(1),
                         !.DELAY_MAX = Str(2), !.MAX_CLAIM_LIMIT = Str(150000),
                         !.MIN_CLAIM = Str(30000), !.MAX_WASTE = Str(6000)] }

\* What a request can come back with.  "fail" is a rejected request or, for
\* the requests that race a 5 s timer (or carry axios' timeout), no reply in
\* time.
Fail == [ok |-> FALSE, data |-> <<>>]
Ok(d) == [ok |-> TRUE, data |-> d]

\* claimlimits rows of an account: none, or one row.
TableData ==
    { <<>>, <<[limit |-> 595000000, extended_at |-> 3600]>> }

\* response.data.result of the game API: absent, or a number.
CollectedData == {Undefined, Str(40000), Str(60000), Str(200000)}

\* get_currency_balance: no balance entry, or one asset string.
BalanceData == { <<>>, <<Str(50000)>>, <<Str(100000)>> }

\* Date.now() / 1e3 when a decision reads the clock.
Clock == {4000, 7300}

\* A run in which every request can fail or bring any of the data above.
AnyAnswer ==
    [table |-> {Fail} \cup {Ok(d) : d \in TableData},
     collected |-> {Fail} \cup {Ok(d) : d \in CollectedData},
     balance |-> {Fail} \cup {Ok(d) : d \in BalanceData},
     clock |-> Clock]

\* The two ends of _.random(delayMin, delayMax, true).
RandomDraws == {0, 1}

(* ------------------------------- state --------------------------------- *)
VARIABLES
    env,      \* process.env, fixed at start-up
    accounts, \* the accounts array, fixed at start-up
    pool,     \* Configs.WAXEndpoints
    pass,     \* one record of locals per runAccounts call
    fired,    \* how many times the interval timer has fired
    calc,     \* the inputs and results of one computation taken on its own
    world     \* what the chain and the game API can answer in this run

vars == <<env, accounts, pool, pass, fired, calc, world>>

Passes == 1..(1 + MaxTimerFires)

\* The failover query a pass is in: the endpoints it has sent a request to,
\* in order, how many of them failed, the pool as it was when the query
\* began and whether a request was sent with another pool in place.
NoQuery ==
    [kind |-> "none", pool0 |-> <<>>, replaced |-> FALSE, attempted |-> <<>>,
     failed |-> 0]

\* What the latest callback of a pass returned from a fetch function: the
\* function, whether a reply or exhaustion ended it, the requests it made
\* and how many failed, the reply's data and the value returned.
NoEvent ==
    [fn |-> "none", by |-> "none", n |-> 0, failed |-> 0, replaced |-> FALSE,
     data |-> <<>>, out |-> <<>>]

NoTx ==
    [called |-> FALSE, config |-> [account |-> 0, privKeys |-> <<>>, actions |-> <<>>],
     endpoint |-> 0, infoReads |-> 0, signs |-> 0, pushes |-> 0, pushedTo |-> 0,
     outcome |-> "none"]

\* No computation is being looked at on its own.
NoCalc == [fn |-> "none"]

\* The locals of a pass that has not started.
Idle ==
    [pc |-> "idle", acct |-> 0, task |-> "none", index |-> 0, errorCount |-> 0,
     accountLimit |-> <<>>, collected |-> Undefined, currentLimit |-> Undefined,
     targetLimit |-> Undefined, increaseCost |-> Undefined,
     aetherBalance |-> Undefined, waste |-> Undefined, delay |-> 0,
     actions |-> <<>>, q |-> NoQuery, requests |-> 0, limitFrom |-> "none",
     ret |-> NoEvent,
     tx |-> NoTx,
     started |-> <<>>, finished |-> <<>>, shuffles |-> 0]

(* ------------------------- pure computations --------------------------- *)
delayMin(e) == OrDefault(parseFloat(e.DELAY_MIN), DefaultDelayMin)
delayMax(e) == OrDefault(parseFloat(e.DELAY_MAX), DefaultDelayMax)
maxLimit(e) == OrDefault(parseFloat(e.MAX_CLAIM_LIMIT), DefaultMaxLimit)
minClaim(e) == OrDefault(parseFloat(e.MIN_CLAIM), DefaultMinClaim)
maxWaste(e) == OrDefault(parseFloat(e.MAX_WASTE), DefaultMaxWaste)

\* DEV_MODE == 1 (loose equality: the string "1" equals the number 1).
DevMode(e) == ToNumber(e.DEV_MODE) = Num(1)

\* _.round(_.random(delayMin, delayMax, true), 2), at one of its two ends.
RandomDelay(e, u) == IF u = 0 THEN delayMin(e).v ELSE delayMax(e).v

\* accountLimit || { limit: 1e4, extended_at: 0 }
LimitRecord(accountLimit) ==
    IF accountLimit = <<>> THEN [limit |-> DefaultLimit, extended_at |-> 0]
    ELSE accountLimit[1]

\* Math.floor((now - extended_at) / 3600)
HoursElapsed(now, extended_at) == (now - extended_at) \div SecondsPerHour

\* CurrentLimit without the floor of 1e4.
CurrentLimitNoFloor(accountLimit, now) ==
    LET r == LimitRecord(accountLimit)
    IN  Decayed(r.limit, HoursElapsed(now, r.extended_at))

\* Math.max(1e4, (limit / 1e4) * Math.pow(0.99, hours))
CurrentLimit(accountLimit, now) ==
    LET r == LimitRecord(accountLimit)
    IN  MathMax(Num(LimitFloor), Decayed(r.limit, HoursElapsed(now, r.extended_at)))

\* IncreaseCost rounding towards zero instead of up.
IncreaseCostFloor(t) ==
    IF t.k # "num" THEN NaN
    ELSE IF t.v = MAX_LIMIT THEN NegInfinity
    ELSE LET q == CostQuotient(Abs(MIN_LIMIT - t.v), Abs(t.v - MAX_LIMIT))
         IN  IF MIN_LIMIT < t.v /\ t.v < MAX_LIMIT
             THEN Num(q[1])
             ELSE IF q[1] = 0 THEN NegZero ELSE Num(-q[1])

\* Math.ceil(MAX_LIMIT^2 * (MIN_LIMIT - t) / (t - MAX_LIMIT) / (MAX_LIMIT - MIN_LIMIT))
\* for a whole t or NaN.  The division by t - MAX_LIMIT = 0 of a negative
\* number is -Infinity; 0 divided by a negative number is -0, and so is the
\* ceiling of a number in (-1, 0).
IncreaseCost(t) ==
    IF t.k # "num" THEN NaN
    ELSE IF t.v = MAX_LIMIT THEN NegInfinity
    ELSE LET q == CostQuotient(Abs(MIN_LIMIT - t.v), Abs(t.v - MAX_LIMIT))
         IN  IF MIN_LIMIT < t.v /\ t.v < MAX_LIMIT
             THEN Num(q[1] + (IF q[2] THEN 1 ELSE 0))
             ELSE IF q[1] = 0 THEN NegZero ELSE Num(-q[1])

\* IncreaseCostHalf rounding down instead of up.
IncreaseCostHalfFloor(n) ==
    Num(CostQuotient(n - 2 * MIN_LIMIT, 2 * MAX_LIMIT - n)[1])

\* Line 251 for a targetLimit of n / 2 strictly between MIN_LIMIT and
\* MAX_LIMIT (collected amounts have decimals):
\* (MIN_LIMIT - n/2) / (n/2 - MAX_LIMIT) = (n - 2 MIN_LIMIT) / (2 MAX_LIMIT - n).
IncreaseCostHalf(n) ==
    LET q == CostQuotient(n - 2 * MIN_LIMIT, 2 * MAX_LIMIT - n)
    IN  Num(q[1] + (IF q[2] THEN 1 ELSE 0))

\* Math.max(0, collected - currentLimit)
Waste(collected, currentLimit) == MathMax(Num(0), JsSub(collected, currentLimit))

\* Decimal digits of a natural number, most significant first.
RECURSIVE Digits(_)
Digits(n) == IF n < 10 THEN <<n>> ELSE Digits(n \div 10) \o <<n % 10>>

\* quantity.toLocaleString("en", {useGrouping: false, minimumFractionDigits: 4,
\* maximumFractionDigits: 4}): sign, integer digits, four decimals; NaN and
\* -Infinity have their own texts.
FormatQuantity(x) ==
    CASE x.k = "nan" -> [text |-> "NaN", neg |-> FALSE, int |-> <<>>, frac |-> <<>>]
      [] x.k = "ninf" -> [text |-> "-Infinity", neg |-> TRUE, int |-> <<>>, frac |-> <<>>]
      [] x.k = "negzero" -> [text |-> "", neg |-> TRUE, int |-> <<0>>, frac |-> <<0, 0, 0, 0>>]
      [] OTHER -> [text |-> "", neg |-> x.v < 0, int |-> Digits(Abs(x.v)),
                   frac |-> <<0, 0, 0, 0>>]

makeIncreaseAction(account, quantity) ==
    [account |-> "e.rplanet", name |-> "transfer",
     authorization |-> <<[actor |-> account, permission |-> "active"]>>,
     data |-> [from |-> account, to |-> "s.rplanet",
               quantity |-> FormatQuantity(quantity), memo |-> "extend claim limit"]]

makeClaimAction(account) ==
    [account |-> "s.rplanet", name |-> "claim",
     authorization |-> <<[actor |-> account, permission |-> "active"]>>,
     data |-> [to |-> account]]

(* ------------------- the code between two suspensions ------------------ *)
\* Each operator maps the locals L of a pass to its locals at the next
\* suspension; pc = "return" says the decision procedure returned.

NewQuery(kind, pl) == [NoQuery EXCEPT !.kind = kind, !.pool0 = pl]

QueryEvent(L, fn, by, data, out) ==
    [fn |-> fn, by |-> by, n |-> Len(L.q.attempted), failed |-> L.q.failed,
     replaced |-> L.q.replaced, data |-> data, out |-> out]

\* increaseLimit from the balance to the jitter delay.
BalanceReturned(L, e, value, u) ==
    LET L1 == [L EXCEPT !.aetherBalance = value, !.index = 0, !.q = NoQuery]
    IN  IF JsLt(value, L.increaseCost)
        THEN [L1 EXCEPT !.pc = "return"]
        ELSE [L1 EXCEPT !.pc = "delay", !.delay = RandomDelay(e, u),
                        !.actions = <<makeIncreaseAction(accounts[L.acct].account,
                                                         L.increaseCost)>>]

\* fetchBalance(account, index) up to its await.
fetchBalance(L, e, pl, index, u) ==
    IF index >= Len(pl)
    THEN BalanceReturned([L EXCEPT !.ret = QueryEvent(L, "fetchBalance", "exhausted",
                                                      <<>>, EmptyArray)],
                         e, EmptyArray, u)
    ELSE [L EXCEPT !.pc = "balance", !.index = index,
                   !.q.attempted = Append(@, pl[index + 1]),
                   !.q.replaced = @ \/ pl # L.q.pool0]

\* fetchBalance from the end of the race to its return or its recursive call.
\* An array, even an empty one, is truthy; data[0] of an empty array is
\* undefined.
fetchBalanceResume(L, e, pl, reply, u) ==
    IF reply.ok
    THEN LET v == parseFloat(IF reply.data = <<>> THEN Undefined ELSE reply.data[1])
         IN  BalanceReturned([L EXCEPT !.ret = QueryEvent(L, "fetchBalance", "reply",
                                                          reply.data, v)],
                             e, v, u)
    ELSE fetchBalance([L EXCEPT !.q.failed = @ + 1], e, pl, L.index + 1, u)

\* increaseLimit from the collected amount to the balance request.
increaseLimit(L, e, pl, collected, now, u) ==
    LET cl == CurrentLimit(L.accountLimit, now)
        L1 == [L EXCEPT !.collected = collected, !.currentLimit = cl]
    IN  IF JsGt(cl, collected)
        THEN [L1 EXCEPT !.pc = "return"]
        ELSE LET t == MathMin(maxLimit(e), collected)
             IN  fetchBalance([L1 EXCEPT !.targetLimit = t,
                                         !.increaseCost = IncreaseCost(t),
                                         !.q = NewQuery("balance", pl)],
                              e, pl, 0, u)

\* claimAether from the collected amount to the jitter delay.
claimAether(L, e, collected, now, u) ==
    LET L1 == [L EXCEPT !.collected = collected]
        cl == CurrentLimit(L.accountLimit, now)
        w == Waste(collected, cl)
        L2 == [L1 EXCEPT !.currentLimit = cl, !.waste = w]
    IN  IF JsGt(minClaim(e), collected)
        THEN [L1 EXCEPT !.pc = "return"]
        ELSE IF JsGt(w, maxWaste(e))
        THEN [L2 EXCEPT !.pc = "return"]
        ELSE [L2 EXCEPT !.pc = "delay", !.delay = RandomDelay(e, u),
                        !.actions = <<makeClaimAction(accounts[L.acct].account)>>]

\* The decision after fetchCollected returned; from says whether a reply or
\* the exhausted retries produced the amount.
CollectedReturned(L, e, pl, collected, from, now, u) ==
    LET L1 == [L EXCEPT !.errorCount = 0, !.requests = 0,
                        !.ret = [NoEvent EXCEPT !.fn = "fetchCollected", !.by = from,
                                                !.n = L.requests,
                                                !.failed = IF from = "reply"
                                                           THEN L.errorCount
                                                           ELSE L.errorCount + 1,
                                                !.out = collected]]
    IN  IF L.task = "increase"
        THEN increaseLimit(L1, e, pl, collected, now, u)
        ELSE claimAether(L1, e, collected, now, u)

\* fetchCollected(account, errorCount) up to its await.
fetchCollected(L, errorCount) ==
    [L EXCEPT !.pc = "collected", !.errorCount = errorCount, !.requests = @ + 1]

\* fetchCollectedResume giving up one failure early.
fetchCollectedResumeEarly(L, e, pl, reply, now, u) ==
    IF reply.ok
    THEN CollectedReturned(L, e, pl, parseFloat(reply.data), "reply", now, u)
    ELSE IF L.errorCount >= MaxErrorCount
    THEN CollectedReturned(L, e, pl, NaN, "exhausted", now, u)
    ELSE fetchCollected(L, L.errorCount + 1)

\* fetchCollected from the reply (or the error) to its return or its retry.
fetchCollectedResume(L, e, pl, reply, now, u) ==
    IF reply.ok
    THEN CollectedReturned(L, e, pl, parseFloat(reply.data), "reply", now, u)
    ELSE IF L.errorCount > MaxErrorCount
    THEN CollectedReturned(L, e, pl, NaN, "exhausted", now, u)
    ELSE fetchCollected(L, L.errorCount + 1)

\* const [accountLimit] = await fetchLimit(account), then fetchCollected.
TableReturned(L, rows, from) ==
    fetchCollected([L EXCEPT !.accountLimit = IF rows = <<>> THEN <<>> ELSE <<rows[1]>>,
                            !.limitFrom = from, !.index = 0, !.q = NoQuery,
                            !.requests = 0], 0)

\* fetchTable walking the pool from its last entry.
fetchTableReversed(L, pl, index) ==
    IF index >= Len(pl)
    THEN TableReturned([L EXCEPT !.ret = QueryEvent(L, "fetchTable", "exhausted",
                                                    <<>>, <<>>)],
                       <<>>, "exhausted")
    ELSE [L EXCEPT !.pc = "table", !.index = index,
                   !.q.attempted = Append(@, pl[Len(pl) - index]),
                   !.q.replaced = @ \/ pl # L.q.pool0]

\* fetchTable(..., index) up to its await.
fetchTable(L, pl, index) ==
    IF index >= Len(pl)
    THEN TableReturned([L EXCEPT !.ret = QueryEvent(L, "fetchTable", "exhausted",
                                                    <<>>, <<>>)],
                       <<>>, "exhausted")
    ELSE [L EXCEPT !.pc = "table", !.index = index,
                   !.q.attempted = Append(@, pl[index + 1]),
                   !.q.replaced = @ \/ pl # L.q.pool0]

\* fetchTable from the end of the race to its return or its recursive call.
fetchTableResume(L, pl, reply) ==
    IF reply.ok
    THEN TableReturned([L EXCEPT !.ret = QueryEvent(L, "fetchTable", "reply",
                                                    reply.data, reply.data)],
                       reply.data, "reply")
    ELSE fetchTable([L EXCEPT !.q.failed = @ + 1], pl, L.index + 1)

\* The locals of a decision when it calls transact: transact sees only its
\* config, and the decision returns as soon as transact does, so what the
\* decision fetched and computed is dead from here on.
InTransact(L) ==
    [Idle EXCEPT !.acct = L.acct, !.task = L.task, !.started = L.started,
                 !.finished = L.finished, !.ret = L.ret, !.shuffles = L.shuffles,
                 !.tx = [NoTx EXCEPT !.called = TRUE,
                                     !.config = [account |-> accounts[L.acct].account,
                                                 privKeys |-> <<accounts[L.acct].privKey>>,
                                                 actions |-> L.actions]]]

\* transact returns: the decision that called it returns too.
TransactReturned(L, outcome) ==
    LET tx == [L.tx EXCEPT !.outcome = outcome]
    IN  [L EXCEPT !.pc = "return", !.tx = tx,
                  !.ret = [NoEvent EXCEPT !.fn = "transact", !.by = outcome, !.out = tx]]

\* transact without the DEV_MODE test.
transactAlways(L, e, pl, smp) ==
    [InTransact(L) EXCEPT !.pc = "info", !.tx.endpoint = pl[smp], !.tx.infoReads = 1]

\* transact(config) up to rpc.get_info(); smp is the index _.sample draws.
transact(L, e, pl, smp) ==
    IF DevMode(e)
    THEN TransactReturned(InTransact(L), "skipped")
    ELSE [InTransact(L) EXCEPT !.pc = "info", !.tx.endpoint = pl[smp],
                               !.tx.infoReads = 1]

\* transact after get_info: on an error the catch logs and transact returns.
transactInfo(L, ok) ==
    IF ok THEN [L EXCEPT !.pc = "sign"]
    ELSE TransactReturned(L, "failed")

\* transactSigned pushing through an rpc object of another endpoint.
transactSignedElsewhere(L, ok) ==
    IF ok THEN [L EXCEPT !.pc = "push", !.tx.signs = @ + 1, !.tx.pushes = @ + 1,
                         !.tx.pushedTo = (L.tx.endpoint % NumEndpoints) + 1]
    ELSE TransactReturned(L, "failed")

\* transact after serializing and signing: the push goes through the rpc
\* object that read the head info.
transactSigned(L, ok) ==
    IF ok THEN [L EXCEPT !.pc = "push", !.tx.signs = @ + 1, !.tx.pushes = @ + 1,
                         !.tx.pushedTo = L.tx.endpoint]
    ELSE TransactReturned(L, "failed")

\* transact after pushSignedTransaction.
transactPushed(L, ok) == TransactReturned(L, IF ok THEN "pushed" ELSE "failed")

\* BeginDecision with shuffleEndpoints() called by increaseLimit only.
BeginDecisionOneShuffle(L, task, acct, sh) ==
    fetchTable([Idle EXCEPT !.acct = acct, !.task = task,
                            !.started = Append(L.started, <<acct, task>>),
                            !.finished = L.finished, !.ret = L.ret,
                            !.shuffles = L.shuffles + (IF task = "increase" THEN 1 ELSE 0),
                            !.q = NewQuery("table", sh)],
               sh, 0)

\* shuffleEndpoints() and the decision's start up to the first table request:
\* sh is what _.shuffle returns; shuffles counts the calls of
\* shuffleEndpoints the pass has made.
BeginDecision(L, task, acct, sh) ==
    fetchTable([Idle EXCEPT !.acct = acct, !.task = task,
                            !.started = Append(L.started, <<acct, task>>),
                            !.finished = L.finished, !.ret = L.ret,
                            !.shuffles = L.shuffles + 1,
                            !.q = NewQuery("table", sh)],
               sh, 0)

\* runTasks going to the next account without the claim decision.
runTasksSkipClaim(L, pl, sh) ==
    LET L1 == [L EXCEPT !.finished = Append(@, <<L.acct, L.task>>)]
    IN  IF L.acct < Len(accounts)
        THEN [local |-> BeginDecision(L1, "increase", L.acct + 1, sh), pool |-> sh]
        ELSE [local |-> [L1 EXCEPT !.pc = "done"], pool |-> pl]

\* runTasks and runAccounts after a decision returned: the claim decision of
\* the same account, the next account, or the end of the pass.
runTasks(L, pl, sh) ==
    LET L1 == [L EXCEPT !.finished = Append(@, <<L.acct, L.task>>)]
    IN  IF L.task = "increase"
        THEN [local |-> BeginDecision(L1, "claim", L.acct, sh), pool |-> sh]
        ELSE IF L.acct < Len(accounts)
        THEN [local |-> BeginDecision(L1, "increase", L.acct + 1, sh), pool |-> sh]
        ELSE [local |-> [L1 EXCEPT !.pc = "done"], pool |-> pl]

(* ------------------------------ actions -------------------------------- *)
\* The locals of pass p as a callback finds them.
Resumed(p) == [pass[p] EXCEPT !.ret = NoEvent]

\* A callback leaves pass p with locals L at its next suspension, or, when
\* the decision returned, at the first suspension of what follows it.
Continue(p, L) ==
    IF L.pc = "return"
    THEN \E sh \in Shuffles :
            LET r == runTasks(L, pool, sh)
            IN  /\ pass' = [pass EXCEPT ![p] = r.local]
                /\ pool' = r.pool
    ELSE /\ pass' = [pass EXCEPT ![p] = L]
         /\ pool' = pool

\* The draws of _.random that matter to a callback ending with locals L:
\* the delay is drawn only when the callback ends in the jitter delay.
Draws(L) == IF L.pc = "delay" THEN RandomDraws ELSE {0}

TableReply(p) ==
    /\ pass[p].pc = "table"
    /\ \E reply \in world.table :
          Continue(p, fetchTableResume(Resumed(p), pool, reply))
    /\ UNCHANGED <<env, accounts, fired, calc, world>>

\* The clock is read only when fetchCollected returns.
CollectedReply(p) ==
    /\ pass[p].pc = "collected"
    /\ \E reply \in world.collected :
          \E now \in IF ~reply.ok /\ pass[p].errorCount <= MaxErrorCount
                     THEN {0} ELSE world.clock :
             \E u \in Draws(fetchCollectedResume(Resumed(p), env, pool, reply, now, 0)) :
                Continue(p, fetchCollectedResume(Resumed(p), env, pool, reply, now, u))
    /\ UNCHANGED <<env, accounts, fired, calc, world>>

BalanceReply(p) ==
    /\ pass[p].pc = "balance"
    /\ \E reply \in world.balance :
          \E u \in Draws(fetchBalanceResume(Resumed(p), env, pool, reply, 0)) :
             Continue(p, fetchBalanceResume(Resumed(p), env, pool, reply, u))
    /\ UNCHANGED <<env, accounts, fired, calc, world>>

DelayElapsed(p) ==
    /\ pass[p].pc = "delay"
    /\ \E smp \in IF DevMode(env) THEN {1} ELSE 1..Len(pool) :
          Continue(p, transact(Resumed(p), env, pool, smp))
    /\ UNCHANGED <<env, accounts, fired, calc, world>>

InfoReply(p) ==
    /\ pass[p].pc = "info"
    /\ \E ok \in BOOLEAN : Continue(p, transactInfo(Resumed(p), ok))
    /\ UNCHANGED <<env, accounts, fired, calc, world>>

SignDone(p) ==
    /\ pass[p].pc = "sign"
    /\ \E ok \in BOOLEAN : Continue(p, transactSigned(Resumed(p), ok))
    /\ UNCHANGED <<env, accounts, fired, calc, world>>

PushReply(p) ==
    /\ pass[p].pc = "push"
    /\ \E ok \in BOOLEAN : Continue(p, transactPushed(Resumed(p), ok))
    /\ UNCHANGED <<env, accounts, fired, calc, world>>

\* setInterval(() => runAccounts(accounts), ...): a new pass starts whatever
\* the earlier passes are doing.
TimerFires ==
    /\ fired < MaxTimerFires
    /\ \E sh \in Shuffles :
          /\ pass' = [pass EXCEPT ![fired + 2] = BeginDecision(Idle, "increase", 1, sh)]
          /\ pool' = sh
    /\ fired' = fired + 1
    /\ UNCHANGED <<env, accounts, calc, world>>

\* The state when the start-up code has run: the pool shuffled and the
\* first pass suspended on its first table request.
Init ==
    /\ env \in Envs
    /\ accounts = Accounts(NumAccounts)
    /\ fired = 0
    /\ calc = NoCalc
    /\ world = AnyAnswer
    /\ \E sh \in Shuffles :
          /\ pool = sh
          /\ pass = [p \in Passes |->
                        IF p = 1 THEN BeginDecision(Idle, "increase", 1, sh) ELSE Idle]

PassStep ==
    \E p \in Passes :
        \/ TableReply(p)
        \/ CollectedReply(p)
        \/ BalanceReply(p)
        \/ DelayElapsed(p)
        \/ InfoReply(p)
        \/ SignDone(p)
        \/ PushReply(p)

\* The first pass alone: the program until the interval timer first fires.
Next == PassStep

Spec == Init /\ [][Next]_vars

\* A run with one account that has no claimlimits row, has collected 60000
\* and holds 100000 AETHER; table requests can fail, the others are answered.
OneAccountAnswers ==
    [table |-> {Fail, Ok(<<>>)},
     collected |-> {Ok(Str(60000))},
     balance |-> {Ok(<<Str(100000)>>)},
     clock |-> {4000}]

InitOverlap ==
    /\ env = EnvDefault
    /\ accounts = Accounts(1)
    /\ fired = 0
    /\ calc = NoCalc
    /\ world = OneAccountAnswers
    /\ \E sh \in Shuffles :
          /\ pool = sh
          /\ pass = [p \in Passes |->
                        IF p = 1 THEN BeginDecision(Idle, "increase", 1, sh) ELSE Idle]

\* Passes started by the timer run along with the first.
NextOverlap == PassStep \/ TimerFires

SpecOverlap == InitOverlap /\ [][NextOverlap]_vars

(* ------------------ requests that are never answered ------------------ *)
\* The requests of fetchTable and fetchBalance race a 5 s timer and the one
\* of fetchCollected carries a 5 s timeout: never answered, they fail (Fail).
\* The awaits of transact (rpc.get_info, the ABI reads of serializeActions
\* and getTransactionAbis, pushSignedTransaction) race nothing: never
\* answered, their promise never settles and no callback of the pass runs
\* again.
Unanswered(p) ==
    /\ pass[p].pc \in {"info", "sign", "push"}
    /\ pass' = [pass EXCEPT ![p].pc = "unanswered"]
    /\ UNCHANGED <<env, accounts, pool, fired, calc, world>>

NextHang == PassStep \/ \E p \in Passes : Unanswered(p)

\* The event loop runs every callback whose event has occurred.
SpecHang == Init /\ [][NextHang]_vars /\ WF_vars(NextHang)

(* ---------------- the effective limit as the clock advances ------------ *)
\* The limit column of a claimlimits row, in 1e-4 AETHER.
StoredLimits ==
    {0, 12345, 99000000, 100000000, 101000000, 123456789, 595000000, 2000000000}

\* Rows a decision can find: none, or one with a stored limit and the time
\* of its extension.
StoredRows ==
    {<<>>} \cup {<<[limit |-> l, extended_at |-> x]>> : l \in StoredLimits, x \in {0, 3600}}

\* Line 232..237 for the row accountLimit at clock now; exact holds the
\* base-100 digits of limit * 99^hours, which is (limit / 1e4) * 0.99^hours
\* times 100^(2 + hours).
LimitCalc(accountLimit, now) ==
    LET r == LimitRecord(accountLimit)
        h == HoursElapsed(now, r.extended_at)
    IN  [fn |-> "limit", accountLimit |-> accountLimit, now |-> now, hours |-> h,
         currentLimit |-> CurrentLimit(accountLimit, now),
         exact |-> TimesPow(ToLimbs(r.limit), DecayPercent, h),
         prev |-> Undefined, prevExact |-> <<>>]

\* A decision reads the clock within the hour of the extension.
InitDecay ==
    /\ env = EnvDefault
    /\ accounts = Accounts(NumAccounts)
    /\ fired = 0
    /\ pool = WAX_ENDPOINTS
    /\ pass = [p \in Passes |-> Idle]
    /\ world = AnyAnswer
    /\ \E accountLimit \in StoredRows, offset \in {0, 1800} :
          calc = LimitCalc(accountLimit, LimitRecord(accountLimit).extended_at + offset)

\* A decision one hour later finds the same row.
HourPasses ==
    /\ calc.fn = "limit"
    /\ calc.hours < MaxHours
    /\ calc' = [LimitCalc(calc.accountLimit, calc.now + SecondsPerHour)
                   EXCEPT !.prev = calc.currentLimit, !.prevExact = calc.exact]
    /\ UNCHANGED <<env, accounts, pool, pass, fired, world>>

NextDecay == HourPasses

SpecDecay == InitDecay /\ [][NextDecay]_vars

(* ---------------- the increase cost as the target grows ---------------- *)
\* Target limits, in halves of an AETHER, the cost is first computed for.
CostStarts == {20001, 30000, 120000, 200000, 2000000, 60000000}

\* Line 250..251 for targetLimit = n / 2.
CostCalc(n) ==
    [fn |-> "cost", n |-> n, steps |-> 0, increaseCost |-> IncreaseCostHalf(n),
     prev |-> Undefined, prev2 |-> Undefined]

InitCost ==
    /\ env = EnvDefault
    /\ accounts = Accounts(NumAccounts)
    /\ fired = 0
    /\ pool = WAX_ENDPOINTS
    /\ pass = [p \in Passes |-> Idle]
    /\ world = AnyAnswer
    /\ \E n \in CostStarts : calc = CostCalc(n)

\* The cost of a target half an AETHER higher; prev and prev2 keep the costs
\* of the targets a half and a whole AETHER lower.
TargetGrows ==
    /\ calc.fn = "cost"
    /\ calc.steps < MaxSteps
    /\ calc.n + 1 < 2 * MAX_LIMIT
    /\ calc' = [CostCalc(calc.n + 1) EXCEPT !.steps = calc.steps + 1,
                                            !.prev = calc.increaseCost,
                                            !.prev2 = calc.prev]
    /\ UNCHANGED <<env, accounts, pool, pass, fired, world>>

NextCost == TargetGrows

SpecCost == InitCost /\ [][NextCost]_vars

(* --------------- the transaction header built by transact -------------- *)
\* A hexadecimal string is the sequence of its digits, 0..15.
\* s.substr(start, length)
Substr(s, start, length) == SubSeq(s, start + 1, start + length)

\* The number a string of hexadecimal digits denotes.
RECURSIVE HexValue(_)
HexValue(s) == IF s = <<>> THEN 0 ELSE 16 * HexValue(SubSeq(s, 1, Len(s) - 1)) + s[Len(s)]

\* parseInt(s, 16) of eight digits: a number below 2^32, kept as its high
\* and low 16 bits.
ParseInt16(s) == [hi |-> HexValue(SubSeq(s, 1, 4)), lo |-> HexValue(SubSeq(s, 5, 8))]

\* The prefix read from the last eight digits of the block id.
RefBlockPrefixTrailing(id) ==
    LET subId == Substr(id, Len(id) - 8, 8)
    IN  ParseInt16(Substr(subId, 6, 2) \o Substr(subId, 4, 2)
                   \o Substr(subId, 2, 2) \o Substr(subId, 0, 2))

\* Line 86..87.
RefBlockPrefix(id) ==
    LET subId == Substr(id, 16, 8)
    IN  ParseInt16(Substr(subId, 6, 2) \o Substr(subId, 4, 2)
                   \o Substr(subId, 2, 2) \o Substr(subId, 0, 2))

\* 65535 & head_block_num, for a head_block_num >= 0.
RefBlockNum(n) == n % 65536

\* A block time is a whole number of seconds (sec) or half a second more
\* (half = 1).  dateToTimePointSec of eosjs is Math.round of the time in
\* seconds, which rounds the half second up.
dateToTimePointSec(t) == t.sec + t.half

\* timePointSecToDate(dateToTimePointSec(head_block_time) + 3600)
Expiration(t) == [sec |-> dateToTimePointSec(t) + SecondsPerHour, half |-> 0]

\* Block ids: 64 digits, all 0 but for digits 16..23 and the last eight.
EightDigits ==
    { <<0, 0, 0, 0, 0, 0, 0, 1>>, <<1, 2, 3, 4, 5, 6, 7, 8>>,
      <<10, 11, 12, 13, 14, 15, 0, 1>>, <<15, 15, 15, 15, 15, 15, 15, 15>> }

BlockId(x, y) ==
    [i \in 1..64 |-> IF i \in 17..24 THEN x[i - 16]
                     ELSE IF i \in 57..64 THEN y[i - 56] ELSE 0]

\* What rpc.get_info() can return.
HeadInfos ==
    { [head_block_id |-> BlockId(x, y), head_block_num |-> n,
       head_block_time |-> [sec |-> sec, half |-> half]] :
        x \in EightDigits, y \in EightDigits,
        n \in {0, 65535, 65536, 65537, 123456789, 2147483647},
        sec \in {1600000000, 1700003599}, half \in {0, 1} }

InitHeader ==
    /\ env = EnvDefault
    /\ accounts = Accounts(NumAccounts)
    /\ fired = 0
    /\ pool = WAX_ENDPOINTS
    /\ pass = [p \in Passes |-> Idle]
    /\ world = AnyAnswer
    /\ \E info \in HeadInfos : calc = [fn |-> "info", info |-> info]

\* Line 86..92: the header of the transaction built from the head info.
BuildHeader ==
    /\ calc.fn = "info"
    /\ calc' = [fn |-> "transaction", info |-> calc.info,
                expiration |-> Expiration(calc.info.head_block_time),
                ref_block_num |-> RefBlockNum(calc.info.head_block_num),
                ref_block_prefix |-> RefBlockPrefix(calc.info.head_block_id)]
    /\ UNCHANGED <<env, accounts, pool, pass, fired, world>>

NextHeader == BuildHeader

SpecHeader == InitHeader /\ [][NextHeader]_vars

(* ------------------------------- claims -------------------------------- *)
IsQuery(fn) == fn \in {"fetchTable", "fetchBalance"}

\* The pc of a pass suspended in the query function fn.
StageOf(fn) == IF fn = "fetchTable" THEN "table" ELSE "balance"

NoDuplicates(s) == \A i, j \in 1..Len(s) : s[i] = s[j] => i = j

\* C1: in a table or balance query whose pool is not replaced meanwhile, when
\* the first K endpoints failed the requests sent so far are the pool's
\* entries 1..K+1 in order, each once; and when the (K+1)-th succeeds the
\* query ends with K+1 attempts, returns what that reply holds (the rows; the
\* number of the first balance) and sends no further request.
C1_FailoverInPoolOrder ==
    \A p \in Passes :
        LET L == pass[p]
        IN  /\ (L.pc \in {"table", "balance"} /\ ~L.q.replaced) =>
                  /\ L.q.kind = L.pc
                  /\ L.index = L.q.failed
                  /\ Len(L.q.attempted) = L.q.failed + 1
                  /\ L.q.attempted = SubSeq(L.q.pool0, 1, L.q.failed + 1)
                  /\ NoDuplicates(L.q.attempted)
            /\ (IsQuery(L.ret.fn) /\ L.ret.by = "reply" /\ ~L.ret.replaced) =>
                  /\ L.ret.n = L.ret.failed + 1
                  /\ L.pc # StageOf(L.ret.fn)
                  /\ IF L.ret.fn = "fetchTable"
                     THEN /\ L.ret.out = L.ret.data
                          /\ L.accountLimit = IF L.ret.data = <<>> THEN <<>>
                                              ELSE <<L.ret.data[1]>>
                     ELSE L.ret.out = IF L.ret.data = <<>> THEN NaN
                                      ELSE Num(L.ret.data[1].v)

\* C1 witness: a query returned the reply of the second endpoint after the
\* first one failed.
C1_Witness ==
    \E p \in Passes :
        /\ IsQuery(pass[p].ret.fn)
        /\ pass[p].ret.by = "reply"
        /\ ~pass[p].ret.replaced
        /\ pass[p].ret.failed = 1
        /\ pass[p].ret.n = 2

\* C2: when every endpoint fails, a query makes exactly one attempt per pool
\* entry and returns the empty sequence (fetchTable) or NaN (fetchBalance).
C2_ExhaustionSentinel ==
    \A p \in Passes :
        LET L == pass[p]
        IN  (IsQuery(L.ret.fn) /\ L.ret.by = "exhausted") =>
                /\ L.ret.n = Len(pool)
                /\ L.ret.failed = Len(pool)
                /\ IF L.ret.fn = "fetchTable"
                   THEN L.ret.out = <<>>
                   ELSE L.ret.out = NaN

\* C3 as claimed: when every request to the game API fails, exactly 4
\* requests are made and the call returns NaN.
C3_FourRequests ==
    \A p \in Passes :
        LET L == pass[p]
        IN  (L.ret.fn = "fetchCollected" /\ L.ret.by = "exhausted") =>
                (L.ret.n = 4 /\ L.ret.out = NaN)

\* C3 amended: when every request to the game API fails, exactly 5 requests
\* are made (the first and four retries) and the call returns NaN; when a
\* request succeeds no further one is made.
C3_FiveRequests ==
    \A p \in Passes :
        LET L == pass[p]
        IN  /\ (L.ret.fn = "fetchCollected" /\ L.ret.by = "exhausted") =>
                  (L.ret.n = 5 /\ L.ret.failed = 5 /\ L.ret.out = NaN)
            /\ (L.ret.fn = "fetchCollected" /\ L.ret.by = "reply") =>
                  (L.ret.n = L.ret.failed + 1 /\ L.pc # "collected")
            /\ L.pc = "collected" =>
                  (L.requests = L.errorCount + 1 /\ L.requests <= 5)

\* C3 witness: fetchCollected gave up after its last retry failed.
C3_Witness ==
    \E p \in Passes :
        pass[p].ret.fn = "fetchCollected" /\ pass[p].ret.by = "exhausted"

\* a <= b on numbers: false when either side is NaN.
JsLe(a, b) == ToNumber(a).k # "nan" /\ ToNumber(b).k # "nan" /\ ~JsLt(b, a)

\* C4: when the collected amount is NaN neither decision reaches the
\* submission step (the jitter delay that precedes transact).
C4_NaNCollectedAborts ==
    \A p \in Passes : pass[p].collected = NaN => pass[p].pc # "delay"

\* C5: the increase decision reaches the submission step only if
\* currentLimit <= collected and the balance lookup gave a number that is at
\* least the cost.
C5_IncreaseOnlyWhenFunded ==
    \A p \in Passes :
        LET L == pass[p]
        IN  (L.task = "increase" /\ L.pc = "delay") =>
                /\ JsLe(L.currentLimit, L.collected)
                /\ IsNum(L.aetherBalance)
                /\ JsLe(L.increaseCost, L.aetherBalance)

\* The value of an environment variable when a number is configured, zero
\* included, and the default d when none is.
Configured(x, d) == IF x.k = "str" THEN Num(x.v) ELSE Num(d)

\* C6: the claim decision reaches the submission step only if
\* collected >= minClaim and max(0, collected - currentLimit) <= maxWaste,
\* with the configured thresholds (0 included) or else 50000 and 1000.
C6_ClaimWithinThresholds ==
    \A p \in Passes :
        LET L == pass[p]
        IN  (L.task = "claim" /\ L.pc = "delay") =>
                /\ JsLe(Configured(env.MIN_CLAIM, 50000), L.collected)
                /\ JsLe(MathMax(Num(0), JsSub(L.collected, L.currentLimit)),
                        Configured(env.MAX_WASTE, 1000))

\* The integer digits of the cost formula's value at some targets t, worked
\* out by hand: ceil(MAX^2 * (MIN - t) / ((t - MAX) * (MAX - MIN))).
CostTable ==
    { <<40000, <<3, 0, 0, 3, 1>>>>, <<60000, <<5, 0, 0, 7, 1>>>>,
      <<100000, <<9, 0, 1, 9, 9>>>>, <<150000, <<1, 4, 0, 4, 5, 0>>>> }

\* C7: when the increase decision submits, its action list holds exactly one
\* action, a transfer on e.rplanet from the account to s.rplanet with memo
\* "extend claim limit", authorized by the account's active permission, whose
\* quantity is the cost formula at t = min(maxLimit, collected), with four
\* decimals; that list is the one handed to transact.
C7_IncreaseAction ==
    \A p \in Passes :
        LET L == pass[p]
            name == accounts[L.acct].account
        IN  /\ (L.task = "increase" /\ L.pc = "delay") =>
                  LET t == MathMin(maxLimit(env), L.collected)
                      a == L.actions[1]
                  IN  /\ Len(L.actions) = 1
                      /\ a.account = "e.rplanet"
                      /\ a.name = "transfer"
                      /\ a.authorization = <<[actor |-> name, permission |-> "active"]>>
                      /\ a.data.from = name
                      /\ a.data.to = "s.rplanet"
                      /\ a.data.memo = "extend claim limit"
                      /\ L.targetLimit = t
                      /\ a.data.quantity = FormatQuantity(IncreaseCost(t))
                      /\ (L.collected = Num(200000) /\ env.MAX_CLAIM_LIMIT = Undefined)
                            => t = Num(100000)
                      /\ \A c \in CostTable :
                            t = Num(c[1]) =>
                                /\ a.data.quantity.int = c[2]
                                /\ a.data.quantity.frac = <<0, 0, 0, 0>>
                                /\ ~a.data.quantity.neg
            /\ (L.task = "increase" /\ L.tx.called) =>
                  /\ Len(L.tx.config.actions) = 1
                  /\ L.tx.config.actions[1].name = "transfer"
                  /\ L.tx.config.actions[1].data.from = name
                  /\ L.tx.config.account = name
                  /\ L.tx.config.privKeys = <<accounts[L.acct].privKey>>

\* C7 witness: collected 200000 under the default maximum limit 100000: the
\* transfer of 90199.0000 is about to be submitted.
C7_Witness ==
    \E p \in Passes :
        /\ pass[p].task = "increase"
        /\ pass[p].pc = "delay"
        /\ pass[p].collected = Num(200000)
        /\ pass[p].targetLimit = Num(100000)
        /\ pass[p].actions[1].data.quantity.int = <<9, 0, 1, 9, 9>>

\* The environment with the dry-run flag the other way round.
Flip(e) == [e EXCEPT !.DEV_MODE = IF DevMode(e) THEN Undefined ELSE Str(1)]

\* C8: with DEV_MODE = 1 no head info is read, nothing is signed and nothing
\* is pushed; and from every state the decision procedures continue after a
\* reply exactly as they would with the flag the other way round, up to the
\* same jitter delay and the same config handed to transact.
C8_DryRun ==
    \A p \in Passes :
        LET L == pass[p]
            R == Resumed(p)
        IN  /\ DevMode(env) =>
                  /\ L.pc \notin {"info", "sign", "push"}
                  /\ L.tx.infoReads = 0 /\ L.tx.signs = 0 /\ L.tx.pushes = 0
                  /\ L.ret.fn = "transact" =>
                        /\ L.ret.by = "skipped"
                        /\ L.ret.out.infoReads = 0
                        /\ L.ret.out.pushes = 0
            /\ L.pc = "collected" =>
                  \A reply \in {Fail} \cup {Ok(d) : d \in CollectedData} :
                      \A now \in Clock, u \in RandomDraws :
                          fetchCollectedResume(R, env, pool, reply, now, u)
                              = fetchCollectedResume(R, Flip(env), pool, reply, now, u)
            /\ L.pc = "balance" =>
                  \A reply \in {Fail} \cup {Ok(d) : d \in BalanceData} :
                      \A u \in RandomDraws :
                          fetchBalanceResume(R, env, pool, reply, u)
                              = fetchBalanceResume(R, Flip(env), pool, reply, u)
            /\ L.pc = "delay" =>
                  \A smp \in 1..Len(pool) :
                      transact(R, env, pool, smp).tx.config
                          = transact(R, Flip(env), pool, smp).tx.config

\* C8 witness: in a dry run a decision went all the way to transact, which
\* returned at once.
C8_Witness ==
    /\ DevMode(env)
    /\ \E p \in Passes :
          /\ pass[p].ret.fn = "transact"
          /\ pass[p].ret.by = "skipped"
          /\ pass[p].ret.out.called

\* C9: a failure in transact (head-info read, signing, push) ends that call
\* after at most one head-info read and one push, the push going to the
\* endpoint the head info was read from, and in the same step the pass goes
\* on to the next decision: the account's claim after its increase, the next
\* account's increase after a claim, or the end of the pass after the last.
C9_SubmissionFailureCaught ==
    \A p \in Passes :
        LET L == pass[p]
        IN  /\ L.tx.infoReads <= 1 /\ L.tx.signs <= 1 /\ L.tx.pushes <= 1
            /\ L.pc \in {"info", "sign"} => (L.tx.infoReads = 1 /\ L.tx.pushes = 0)
            /\ L.pc = "push" =>
                  /\ L.tx.infoReads = 1 /\ L.tx.pushes = 1
                  /\ L.tx.pushedTo = L.tx.endpoint
                  /\ \E i \in 1..Len(WAX_ENDPOINTS) : WAX_ENDPOINTS[i] = L.tx.endpoint
            /\ (L.ret.fn = "transact" /\ L.ret.by = "failed") =>
                  LET t == L.ret.out
                      a == CHOOSE i \in 1..Len(accounts) :
                              accounts[i].account = t.config.account
                      task == IF t.config.actions[1].name = "transfer"
                              THEN "increase" ELSE "claim"
                  IN  /\ t.infoReads = 1 /\ t.pushes <= 1
                      /\ t.pushes = 1 => t.pushedTo = t.endpoint
                      /\ L.finished # <<>>
                      /\ L.finished[Len(L.finished)] = <<a, task>>
                      /\ IF task = "increase"
                         THEN L.pc = "table" /\ L.task = "claim" /\ L.acct = a
                         ELSE IF a < Len(accounts)
                         THEN L.pc = "table" /\ L.task = "increase" /\ L.acct = a + 1
                         ELSE L.pc = "done"

\* C9 witness: the push of the first account's transfer was rejected and
\* the pass is in that account's claim decision.
C9_Witness ==
    \E p \in Passes :
        /\ pass[p].ret.fn = "transact"
        /\ pass[p].ret.by = "failed"
        /\ pass[p].ret.out.pushes = 1
        /\ pass[p].pc = "table"
        /\ pass[p].task = "claim"

\* The decisions of one pass in the order runAccounts awaits them.
ExpectedOrder ==
    [i \in 1..(2 * Len(accounts)) |->
        <<(i + 1) \div 2, IF i % 2 = 1 THEN "increase" ELSE "claim">>]

\* C10: in every pass the decisions start in the order account 1 increase,
\* account 1 claim, account 2 increase, ...; a decision starts only when all
\* the earlier ones have returned, so at most the latest one is running.
C10_DecisionsInOrder ==
    \A p \in Passes :
        LET L == pass[p]
            ns == Len(L.started)
            nf == Len(L.finished)
        IN  L.pc # "idle" =>
                /\ ns <= Len(ExpectedOrder)
                /\ L.started = SubSeq(ExpectedOrder, 1, ns)
                /\ nf <= ns
                /\ L.finished = SubSeq(L.started, 1, nf)
                /\ ns - nf = IF L.pc = "done" THEN 0 ELSE 1
                /\ L.pc # "done" => <<L.acct, L.task>> = L.started[ns]
                /\ L.pc = "done" => L.started = ExpectedOrder

\* C10 witness: the last account's claim decision is at its jitter delay
\* and every earlier decision has returned.
C10_Witness ==
    \E p \in Passes :
        /\ pass[p].pc = "delay"
        /\ pass[p].task = "claim"
        /\ pass[p].acct = Len(accounts)
        /\ Len(pass[p].finished) = 2 * Len(accounts) - 1

\* a <= b for naturals given by their base-100 digits, least significant
\* first and without leading zeros.
RECURSIVE LimbLe(_, _)
LimbLe(a, b) ==
    IF Len(a) # Len(b) THEN Len(a) < Len(b)
    ELSE IF a = <<>> THEN TRUE
    ELSE IF a[Len(a)] # b[Len(b)] THEN a[Len(a)] < b[Len(b)]
    ELSE LimbLe(SubSeq(a, 1, Len(a) - 1), SubSeq(b, 1, Len(b) - 1))

\* C11: for hours >= 0 the effective limit is never below 10000, an hour
\* later it is not above what it was (the decayed amount itself does not
\* grow: limit * 99^(h+1) / 100^(h+3) <= limit * 99^h / 100^(h+2)), and with
\* no row it is 10000.
C11_LimitDecays ==
    calc.fn = "limit" =>
        /\ calc.hours >= 0
        /\ calc.currentLimit.k = "num"
        /\ calc.currentLimit.v >= 10000
        /\ calc.prev # Undefined =>
              /\ ~JsLt(calc.prev, calc.currentLimit)
              /\ calc.currentLimit.v <= calc.prev.v
              /\ LimbLe(calc.exact, IF calc.prevExact = <<>> THEN <<>>
                                    ELSE <<0>> \o calc.prevExact)
        /\ calc.accountLimit = <<>> => calc.currentLimit = Num(10000)

\* C11 witness: a limit above the floor has decayed for some hours, is lower
\* than an hour before and still above the floor.
C11_Witness ==
    /\ calc.fn = "limit"
    /\ calc.hours >= 2
    /\ calc.prev # Undefined
    /\ calc.currentLimit.v < calc.prev.v
    /\ calc.currentLimit.v > 10000

\* C12 as claimed: for two targets t1 < t2 in (10000, 50000000), here half
\* an AETHER apart, cost(t1) < cost(t2).
C12_StrictlyIncreasing ==
    (calc.fn = "cost" /\ calc.prev # Undefined) =>
        JsLt(calc.prev, calc.increaseCost)

\* C12 amended: over (10000, 50000000) the cost is positive and
\* non-decreasing in the target, and strictly increasing between targets at
\* least one AETHER apart; it is 50071 at 60000 and 90199 at 100000, and for
\* a whole target it is what the decision computes.
C12_NonDecreasing ==
    calc.fn = "cost" =>
        /\ JsLt(Num(0), calc.increaseCost)
        /\ calc.prev # Undefined => ~JsLt(calc.increaseCost, calc.prev)
        /\ calc.prev2 # Undefined => JsLt(calc.prev2, calc.increaseCost)
        /\ calc.n = 120000 => calc.increaseCost = Num(50071)
        /\ calc.n = 200000 => calc.increaseCost = Num(90199)
        /\ calc.n % 2 = 0 => calc.increaseCost = IncreaseCost(Num(calc.n \div 2))

\* C12 witness: two targets half an AETHER apart cost the same.
C12_Witness ==
    /\ calc.fn = "cost"
    /\ calc.prev2 # Undefined
    /\ calc.prev = calc.increaseCost

\* C13: a decision whose table lookup returned the empty sequence because
\* every endpoint failed does not reach the submission step.
C13_ExhaustedTableAborts ==
    \A p \in Passes : pass[p].limitFrom = "exhausted" => pass[p].pc # "delay"

\* A decision of pass p is in progress: begun and not yet returned.
InProgress(p) == pass[p].pc \notin {"idle", "done"}

\* C14: at no time are two decisions in progress, the passes started by the
\* interval timer included.
C14_OneDecisionAtATime ==
    Cardinality({p \in Passes : InProgress(p)}) <= 1

\* C15: the attempts of one traversal (one fetchTable or fetchBalance call)
\* are taken from one ordering of the pool: no endpoint is attempted twice,
\* also when another pass reshuffles the pool meanwhile.
C15_OneOrderingPerTraversal ==
    \A p \in Passes :
        pass[p].pc \in {"table", "balance"} => NoDuplicates(pass[p].q.attempted)

\* C16: every pass terminates: the first runAccounts call eventually has
\* finished both decisions of every account, whatever the endpoints and the
\* game API do, never answering included.
C16_PassTerminates == <>(pass[1].pc = "done")

\* How many increase decisions a pass has started: one per account begun.
RECURSIVE IncreasesIn(_)
IncreasesIn(log) ==
    IF log = <<>> THEN 0
    ELSE (IF log[1][2] = "increase" THEN 1 ELSE 0) + IncreasesIn(Tail(log))

\* C17 as claimed: a pass has reshuffled the pool exactly once per account
\* it has begun, before the increase decision and not again before the
\* claim decision.
C17_OneShufflePerAccount ==
    \A p \in Passes : pass[p].shuffles = IncreasesIn(pass[p].started)

\* C17 amended: a pass has reshuffled the pool exactly once per decision it
\* has started, so twice per account, and not once per query: while a query
\* of the only pass runs, the pool is the one the query began with.
C17_OneShufflePerDecision ==
    \A p \in Passes :
        /\ pass[p].shuffles = Len(pass[p].started)
        /\ pass[p].pc = "done" => pass[p].shuffles = 2 * Len(accounts)
        /\ pass[p].pc \in {"table", "balance"} => pass[p].q.pool0 = pool

\* C17 witness: the claim decision of the first account has begun and the
\* pass has reshuffled twice.
C17_Witness ==
    \E p \in Passes :
        /\ pass[p].task = "claim"
        /\ pass[p].acct = 1
        /\ pass[p].shuffles = 2

\* The set of the entries of a sequence.
Range(f) == {f[i] : i \in 1..Len(f)}

\* C18: in every state the pool is non-empty and a permutation of the fixed
\* endpoint list (same length, same entries, none twice); every endpoint a
\* query has attempted and the endpoint transact has sampled are entries of
\* that list.
C18_PoolIsPermutation ==
    /\ Len(pool) > 0
    /\ Len(pool) = Len(WAX_ENDPOINTS)
    /\ Range(pool) = Range(WAX_ENDPOINTS)
    /\ NoDuplicates(pool)
    /\ \A p \in Passes :
          /\ Range(pass[p].q.attempted) \subseteq Range(WAX_ENDPOINTS)
          /\ pass[p].tx.infoReads >= 1 => pass[p].tx.endpoint \in Range(WAX_ENDPOINTS)
          /\ pass[p].tx.pushes >= 1 => pass[p].tx.pushedTo \in Range(WAX_ENDPOINTS)

\* C18 witness: the pool is in another order than the fixed list and
\* transact is pushing through an endpoint it sampled from it.
C18_Witness ==
    /\ pool # WAX_ENDPOINTS
    /\ \E p \in Passes :
          /\ pass[p].pc = "push"
          /\ pass[p].shuffles >= 2
          /\ pass[p].tx.endpoint \in Range(pool)

\* Byte k (from 0) of a block id, and four bytes from byte k on read as a
\* little-endian unsigned integer, as its high and low 16 bits.
ByteOf(id, k) == 16 * id[2 * k + 1] + id[2 * k + 2]

LittleEndian(id, k) ==
    [hi |-> ByteOf(id, k + 2) + 256 * ByteOf(id, k + 3),
     lo |-> ByteOf(id, k) + 256 * ByteOf(id, k + 1)]

\* C19 as claimed: ref_block_prefix is the last 4 of the 32 bytes of the
\* head block id read little-endian, ref_block_num is head_block_num & 0xFFFF
\* and expiration is head_block_time + 3600 s.
C19_TrailingBytes ==
    calc.fn = "transaction" =>
        /\ calc.ref_block_prefix = LittleEndian(calc.info.head_block_id, 28)
        /\ calc.ref_block_num \in 0..65535
        /\ (calc.info.head_block_num - calc.ref_block_num) % 65536 = 0
        /\ calc.expiration.sec = calc.info.head_block_time.sec + 3600
        /\ calc.expiration.half = calc.info.head_block_time.half

\* C19 amended: ref_block_prefix is bytes 8..11 of the head block id read
\* little-endian, ref_block_num is head_block_num & 0xFFFF, in 0..65535, and
\* expiration is head_block_time rounded to the whole second (a half second
\* up) plus 3600 s.
C19_HeaderFields ==
    calc.fn = "transaction" =>
        /\ calc.ref_block_prefix = LittleEndian(calc.info.head_block_id, 8)
        /\ calc.ref_block_num \in 0..65535
        /\ (calc.info.head_block_num - calc.ref_block_num) % 65536 = 0
        /\ calc.expiration.half = 0
        /\ calc.expiration.sec = calc.info.head_block_time.sec + 3600
                                 + calc.info.head_block_time.half
        /\ calc.info.head_block_id = BlockId(<<1, 2, 3, 4, 5, 6, 7, 8>>, <<0, 0, 0, 0, 0, 0, 0, 1>>)
              => calc.ref_block_prefix = [hi |-> 30806, lo |-> 13330]

\* C19 witness: a header built from a block id whose bytes 8..11 differ from
\* its last four, a block number above 65535 and a block time on the half
\* second.
C19_Witness ==
    /\ calc.fn = "transaction"
    /\ LittleEndian(calc.info.head_block_id, 8) # LittleEndian(calc.info.head_block_id, 28)
    /\ calc.info.head_block_num > 65535
    /\ calc.info.head_block_time.half = 1

\* A formatted quantity is a finite number greater than zero.
FinitePositive(q) == q.text = "" /\ ~q.neg /\ \E i \in 1..Len(q.int) : q.int[i] # 0

\* C20: every transfer the increase-limit decision submits carries a quantity
\* that is a finite number strictly greater than zero.
C20_QuantityFinitePositive ==
    \A p \in Passes :
        LET L == pass[p]
        IN  (L.task = "increase" /\ L.pc = "push") =>
                \A i \in 1..Len(L.tx.config.actions) :
                    FinitePositive(L.tx.config.actions[i].data.quantity)
====
